---- MODULE Spec2Model ----
(***************************************************************************)
(* Stooge sort (src/src/lib.rs): the three entry points of trait Stooge    *)
(* and the recursive routine stooge_sort, run as an explicit call stack.   *)
(* Indices are 0-based as in the source; the slice v is a TLA+ sequence,   *)
(* so element i of the slice is v[i + 1].                                  *)
(***************************************************************************)
EXTENDS Integers, Sequences, FiniteSets, TLC

\* Longest slice handed to a sort.
MaxLen == 5

\* Element values (T = a signed integer type); -1 and 1 share the key abs.
Val == {-1, 0, 1}

\* The entry points of impl Stooge<T> for [T].
Entries == {"stooge_sort", "stooge_sort_by", "stooge_sort_by_key"}

\* Comparators a caller may hand to stooge_sort_by.  The first two are
\* strict total orders on Val, "abs" is a total preorder with ties, the
\* others are not orders at all.
TotalOrders == {"cmp", "rev"}
TotalPreorders == TotalOrders \cup {"abs"}
Comparators == TotalPreorders \cup {"always_less", "always_greater", "cycle", "ne"}

\* Key functions a caller may hand to stooge_sort_by_key.
KeyFns == {"id", "abs", "neg", "const"}

VARIABLES
    v,        \* the slice being sorted
    input,    \* the slice as it was handed to the entry point
    entry,    \* which entry point was called
    ord,      \* the comparator or key function given ("none" for stooge_sort)
    phase,    \* "ready" (before the call), "running", "done", "panicked"
    stack,    \* active calls of stooge_sort, outermost first
    ncalls,   \* calls of the recursive routine so far
    ncmp,     \* calls of is_less so far
    nkey,     \* calls of the key function so far
    nswap     \* calls of v.swap so far

vars == <<v, input, entry, ord, phase, stack, ncalls, ncmp, nkey, nswap>>

----------------------------------------------------------------------------
\* Pure parts of the code.

Abs(x) == IF x < 0 THEN -x ELSE x

\* i64::cmp
Cmp(a, b) == IF a < b THEN "Less" ELSE IF a = b THEN "Equal" ELSE "Greater"

\* The caller's closure F: FnMut(&T, &T) -> Ordering.
Compare(c, a, b) ==
    CASE c = "cmp" -> Cmp(a, b)
      [] c = "rev" -> Cmp(b, a)
      [] c = "abs" -> Cmp(Abs(a), Abs(b))
      [] c = "always_less" -> "Less"
      [] c = "always_greater" -> "Greater"
      [] c = "cycle" -> IF a = b THEN "Equal"
                        ELSE IF <<a, b>> \in {<<-1, 0>>, <<0, 1>>, <<1, -1>>}
                             THEN "Less" ELSE "Greater"
      [] c = "ne" -> IF a = b THEN "Equal" ELSE "Less"

\* The caller's closure F: FnMut(&T) -> K.
Key(k, a) ==
    CASE k = "id" -> a
      [] k = "abs" -> Abs(a)
      [] k = "neg" -> -a
      [] k = "const" -> 0

\* is_less as each entry point builds it: T::lt, compare(a, b) == Less,
\* compare(a).lt(&compare(b)).
IsLessNatural(a, b) == a < b
IsLessBy(c, a, b) == Compare(c, a, b) = "Less"
IsLessByKey(k, a, b) == Key(k, a) < Key(k, b)

IsLess(e, o, a, b) ==
    CASE e = "stooge_sort" -> IsLessNatural(a, b)
      [] e = "stooge_sort_by" -> IsLessBy(o, a, b)
      [] e = "stooge_sort_by_key" -> IsLessByKey(o, a, b)

\* Key-function calls one call of is_less makes: compare(a) and compare(b)
\* in the by_key closure, none in the other two.
KeyCallsCached(e) == IF e = "stooge_sort_by_key" THEN 1 ELSE 0
KeyCallsPerCompare(e) == IF e = "stooge_sort_by_key" THEN 2 ELSE 0

\* The entry points' guard: self.is_empty() || self.len() == 1.
SkipsOnlyEmpty(s) == Len(s) = 0
Skips(s) == Len(s) = 0 \/ Len(s) = 1

\* The right bound of the outermost call: self.len() - 1.
InitialRightOffByOne(s) == Len(s)
InitialRight(s) == Len(s) - 1

\* right - left + 1
RangeLen(left, right) == right - left + 1

\* let third = (right - left + 1) / 3;
ThirdCeil(left, right) == (RangeLen(left, right) + 2) \div 3
ThirdIsTwoThirds(left, right) == (2 * RangeLen(left, right)) \div 3
Third(left, right) == RangeLen(left, right) \div 3

\* if (right - left + 1) > 2
RecursesAlsoOnPairs(left, right) == RangeLen(left, right) >= 2
RecursesOnlyAboveThree(left, right) == RangeLen(left, right) > 3
Recurses(left, right) == RangeLen(left, right) > 2

\* v[i]: in range or a panic.
InRange(s, i) == 0 <= i /\ i < Len(s)
At(s, i) == s[i + 1]

\* v.swap(i, j)
SwapOverwrite(s, i, j) == [s EXCEPT ![i + 1] = s[j + 1]]
Swap(s, i, j) == [s EXCEPT ![i + 1] = s[j + 1], ![j + 1] = s[i + 1]]

\* if !is_less(&v[left], &v[right]) { v.swap(left, right) }
NeedsSwapIfGreater(e, o, a, b) == IsLess(e, o, b, a)
NeedsSwapInverted(e, o, a, b) == IsLess(e, o, a, b)
NeedsSwap(e, o, a, b) == ~IsLess(e, o, a, b)

Frame(l, r) == [left |-> l, right |-> r, pc |-> "start"]

Top == stack[Len(stack)]
Pop == SubSeq(stack, 1, Len(stack) - 1)
SetPc(p) == [stack EXCEPT ![Len(stack)].pc = p]

----------------------------------------------------------------------------
\* Slices of length 0..MaxLen over Val.
Slices == UNION {[1..n -> Val] : n \in 0..MaxLen}

Init ==
    /\ input \in Slices
    /\ v = input
    /\ entry \in Entries
    /\ ord \in CASE entry = "stooge_sort" -> {"none"}
                 [] entry = "stooge_sort_by" -> Comparators
                 [] entry = "stooge_sort_by_key" -> KeyFns
    /\ phase = "ready"
    /\ stack = <<>>
    /\ ncalls = 0
    /\ ncmp = 0
    /\ nkey = 0
    /\ nswap = 0

\* The body of an entry point: nothing for an empty or one-element slice,
\* else stooge_sort(self, 0, self.len() - 1, is_less).
EnterSort ==
    /\ phase = "ready"
    /\ IF Skips(v)
       THEN /\ phase' = "done"
            /\ UNCHANGED <<stack, ncalls>>
       ELSE /\ phase' = "running"
            /\ stack' = <<Frame(0, InitialRight(v))>>
            /\ ncalls' = ncalls + 1
    /\ UNCHANGED <<v, input, entry, ord, ncmp, nkey, nswap>>

\* Lines 106-108: compare the range's endpoints and swap them unless the
\* first is less.  An index outside the slice panics, and so does the usize
\* subtraction right - left of line 110 when left is beyond right.
CompareAndSwap ==
    /\ phase = "running"
    /\ Top.pc = "start"
    /\ LET l == Top.left
           r == Top.right
       IN IF ~(InRange(v, l) /\ InRange(v, r))
          THEN /\ phase' = "panicked"
               /\ UNCHANGED <<v, stack, ncmp, nkey, nswap>>
          ELSE /\ ncmp' = ncmp + 1
               /\ nkey' = nkey + KeyCallsPerCompare(entry)
               /\ IF NeedsSwap(entry, ord, At(v, l), At(v, r))
                  THEN v' = Swap(v, l, r) /\ nswap' = nswap + 1
                  ELSE UNCHANGED <<v, nswap>>
               /\ stack' = SetPc("split")
               /\ phase' = IF r < l THEN "panicked" ELSE phase
    /\ UNCHANGED <<input, entry, ord, ncalls>>

\* A call: the caller moves to its next position, the callee starts.
\* usize arithmetic: a negative bound is an overflow panic.
CallOn(l, r, next) ==
    IF l < 0 \/ r < 0
    THEN /\ phase' = "panicked"
         /\ UNCHANGED <<stack, ncalls>>
    ELSE /\ stack' = Append(SetPc(next), Frame(l, r))
         /\ ncalls' = ncalls + 1
         /\ UNCHANGED phase

\* Lines 110-112: a range of more than 2 elements recurses on its first
\* two thirds.
Recurse1 ==
    /\ phase = "running"
    /\ Top.pc = "split"
    /\ Recurses(Top.left, Top.right)
    /\ CallOn(Top.left, Top.right - Third(Top.left, Top.right), "after1")
    /\ UNCHANGED <<v, input, entry, ord, ncmp, nkey, nswap>>

\* Line 113: then on its last two thirds.
Recurse2 ==
    /\ phase = "running"
    /\ Top.pc = "after1"
    /\ CallOn(Top.left + Third(Top.left, Top.right), Top.right, "after2")
    /\ UNCHANGED <<v, input, entry, ord, ncmp, nkey, nswap>>

\* Line 114: then on its first two thirds again.
Recurse3 ==
    /\ phase = "running"
    /\ Top.pc = "after2"
    /\ CallOn(Top.left, Top.right - Third(Top.left, Top.right), "after3")
    /\ UNCHANGED <<v, input, entry, ord, ncmp, nkey, nswap>>

\* Lines 115-116: the call returns, after its third recursion or at once
\* for a range of at most 2 elements; the outermost return ends the sort.
Return ==
    /\ phase = "running"
    /\ \/ Top.pc = "after3"
       \/ Top.pc = "split" /\ ~Recurses(Top.left, Top.right)
    /\ stack' = Pop
    /\ phase' = IF Len(stack) = 1 THEN "done" ELSE "running"
    /\ UNCHANGED <<v, input, entry, ord, ncalls, ncmp, nkey, nswap>>

Next ==
    \/ EnterSort
    \/ CompareAndSwap
    \/ Recurse1
    \/ Recurse2
    \/ Recurse3
    \/ Return

Spec == Init /\ [][Next]_vars

\* The sort is one synchronous call: it keeps running until it returns.
FairSpec == Spec /\ WF_vars(Next)

----------------------------------------------------------------------------
\* Vocabulary of the properties.

\* is_less of the sort in progress.
Less(a, b) == IsLess(entry, ord, a, b)

\* a and b are equal under the predicate: neither precedes the other.
Tied(a, b) == ~Less(a, b) /\ ~Less(b, a)

Count(s, x) == Cardinality({i \in DOMAIN s : s[i] = x})

\* Same length and same multiset of elements.
IsPermutation(s, t) == Len(s) = Len(t) /\ \A x \in Val : Count(s, x) = Count(t, x)

\* No adjacent pair has its earlier element strictly after its later one.
Ordered(s) == \A i \in 1..(Len(s) - 1) : ~Less(s[i + 1], s[i])

\* The predicate in use is a total preorder / a strict total order on Val.
PredicateIsPreorder ==
    \/ entry = "stooge_sort"
    \/ entry = "stooge_sort_by" /\ ord \in TotalPreorders
    \/ entry = "stooge_sort_by_key"
PredicateIsTotalOrder ==
    \/ entry = "stooge_sort"
    \/ entry = "stooge_sort_by" /\ ord \in TotalOrders

\* A reference sort: stable insertion sort under the predicate in use.
RECURSIVE Insert(_, _)
Insert(s, x) ==
    IF s = <<>> THEN <<x>>
    ELSE IF Less(x, s[1]) THEN <<x>> \o s
    ELSE <<s[1]>> \o Insert(Tail(s), x)

RECURSIVE ReferenceSort(_)
ReferenceSort(s) ==
    IF s = <<>> THEN <<>>
    ELSE Insert(ReferenceSort(SubSeq(s, 1, Len(s) - 1)), s[Len(s)])

RangeOf(f) == RangeLen(f.left, f.right)

----------------------------------------------------------------------------
\* C1: at every point of a sort through any of the three entry points, and
\* so after the call, the slice is a permutation of the slice handed in:
\* same length, same multiset of elements.
C1_Permutation == IsPermutation(v, input)

\* C1 witness: a sort by key has returned after rearranging the slice.
C1_Witness ==
    /\ phase = "done"
    /\ entry = "stooge_sort_by_key"
    /\ nswap > 0
    /\ v # input

\* C2: after stooge_sort, or stooge_sort_by with a total (pre)order, no
\* adjacent pair of the output has its earlier element strictly after its
\* later one; when the order is a strict total order the output is exactly
\* what the reference sort makes of the input.
C2_SortedAsReference ==
    (phase = "done" /\ entry \in {"stooge_sort", "stooge_sort_by"} /\ PredicateIsPreorder)
        => /\ Ordered(v)
           /\ PredicateIsTotalOrder => v = ReferenceSort(input)

\* C2 witness: a reversed comparator has sorted five elements that were not
\* in order.
C2_Witness ==
    /\ phase = "done"
    /\ entry = "stooge_sort_by"
    /\ ord = "rev"
    /\ Len(input) = 5
    /\ ~Ordered(input)
    /\ v = ReferenceSort(input)

\* C3: after stooge_sort_by_key every adjacent pair of the output has
\* key(earlier) <= key(later), also when distinct elements share a key.
C3_SortedByKey ==
    (phase = "done" /\ entry = "stooge_sort_by_key")
        => \A i \in 1..(Len(v) - 1) : Key(ord, v[i]) <= Key(ord, v[i + 1])

\* C3 witness: sorted by abs, with -1 and 1 (one key, two elements) both in
\* the input, which was out of key order.
C3_Witness ==
    /\ phase = "done"
    /\ entry = "stooge_sort_by_key"
    /\ ord = "abs"
    /\ Count(input, -1) > 0
    /\ Count(input, 1) > 0
    /\ ~Ordered(input)

\* Distinct elements of s are never equal under the predicate in use.
TiesAreIdentical(s) ==
    \A i, j \in DOMAIN s : Tied(s[i], s[j]) => s[i] = s[j]

\* C4 as stated: an input already in non-decreasing order under the
\* predicate in use comes out the same, position by position.
C4_IdempotentAsStated ==
    (phase = "done" /\ PredicateIsPreorder /\ Ordered(input)) => v = input

\* C4 amended: an input already in non-decreasing order under the predicate
\* in use, in which elements equal under the predicate are the same value,
\* comes out the same, position by position.
C4_IdempotentWhenTiesIdentical ==
    (phase = "done" /\ PredicateIsPreorder /\ Ordered(input) /\ TiesAreIdentical(input))
        => v = input

\* C4 witness: a sorted input with a repeated value went through swaps and
\* came out as it was.
C4_Witness ==
    /\ phase = "done"
    /\ PredicateIsPreorder
    /\ Len(input) >= 3
    /\ Ordered(input)
    /\ TiesAreIdentical(input)
    /\ nswap > 0
    /\ v = input

\* C5: for a slice of length 0 or 1 no entry point ever enters the
\* recursive routine, calls the predicate or the key function, or swaps,
\* and the slice stays as it was.
C5_ShortSliceUntouched ==
    Len(input) <= 1 =>
        /\ v = input
        /\ stack = <<>>
        /\ ncalls = 0
        /\ ncmp = 0
        /\ nkey = 0
        /\ nswap = 0
        /\ phase \in {"ready", "done"}

\* C5 witness: a one-element slice has been through stooge_sort_by_key.
C5_Witness ==
    /\ phase = "done"
    /\ Len(input) = 1
    /\ entry = "stooge_sort_by_key"

\* C6: the sort is unstable: a two-element input whose elements are equal
\* under the predicate always comes out with the two exchanged.
C6_TiedPairIsReversed ==
    (phase = "done" /\ Len(input) = 2 /\ Tied(input[1], input[2]))
        => v = <<input[2], input[1]>>

\* C6 witness: 1 and -1, equal under the key abs, have come out in the
\* reverse of their input order.
C6_Witness ==
    /\ phase = "done"
    /\ entry = "stooge_sort_by_key"
    /\ ord = "abs"
    /\ input = <<1, -1>>
    /\ v = <<-1, 1>>

\* C7: with any predicate, a total order or not, the sort returns, never
\* panics on an index or a subtraction, and leaves a permutation of its
\* input.
C7_AnyPredicateTerminatesSafely ==
    /\ <>(phase = "done")
    /\ [](phase # "panicked" /\ IsPermutation(v, input))

\* C7 witness: a non-transitive comparator has been through five elements
\* and returned, leaving them out of the order it defines.
C7_Witness ==
    /\ phase = "done"
    /\ entry = "stooge_sort_by"
    /\ ord = "cycle"
    /\ Len(input) = 5
    /\ ~Ordered(v)

\* C8: the number of active calls of stooge_sort never exceeds the length
\* of the slice.
C8_DepthAtMostLength == Len(stack) <= Len(input)

\* C8 witness: four nested calls on a slice of five elements.
C8_Witness == Len(input) = 5 /\ Len(stack) = 4

\* C9 as stated: a call on n > 2 elements recurses only on ranges shorter
\* than n by at least n / 3, and a call on at most 2 elements does not
\* recurse.
C9_ShrinksByThirdAsStated ==
    \A i \in 1..(Len(stack) - 1) :
        /\ RangeOf(stack[i]) > 2
        /\ 3 * (RangeOf(stack[i]) - RangeOf(stack[i + 1])) >= RangeOf(stack[i])

\* C9 amended: a call on n > 2 elements recurses only on ranges inside its
\* own that are shorter than n by exactly floor(n / 3), which is at least 1
\* and at most one-third of n, and a call on at most 2 elements does not
\* recurse.
C9_ShrinksByFloorThird ==
    \A i \in 1..(Len(stack) - 1) :
        LET n == RangeOf(stack[i])
            d == n - RangeOf(stack[i + 1])
        IN /\ n > 2
           /\ d >= 1
           /\ 3 * d <= n
           /\ n < 3 * (d + 1)
           /\ stack[i].left <= stack[i + 1].left
           /\ stack[i + 1].right <= stack[i].right

\* C9 witness: a call on 5 elements is waiting for a call on 4, which is
\* waiting for a call on 3.
C9_Witness ==
    /\ Len(stack) >= 3
    /\ RangeOf(stack[1]) = 5
    /\ RangeOf(stack[2]) = 4
    /\ RangeOf(stack[3]) = 3

\* C10: stooge_sort_by_key calls the key function exactly twice for every
\* comparison, so at every point of the sort the key function has been
\* called twice as often as the predicate.
C10_TwoKeyCallsPerCompare ==
    entry = "stooge_sort_by_key" => nkey = 2 * ncmp

\* C10 witness: a sort by key has returned after 40 comparisons and 80 key
\* calls on 5 elements.
C10_Witness ==
    /\ phase = "done"
    /\ entry = "stooge_sort_by_key"
    /\ Len(input) = 5
    /\ ncmp = 40
    /\ nkey = 80

\* C11: on a slice of len >= 2 every active call of stooge_sort has
\* 0 <= left < right <= len - 1, the bounds right - third and left + third
\* it hands to its recursive calls lie in [left, right], every callee's
\* range lies in its caller's, and no index or usize subtraction panics.
C11_RangesStayInside ==
    Len(input) >= 2 =>
        /\ phase # "panicked"
        /\ \A i \in 1..Len(stack) :
            LET l == stack[i].left
                r == stack[i].right
            IN /\ 0 <= l
               /\ l < r
               /\ r <= Len(v) - 1
               /\ Recurses(l, r) =>
                    /\ l <= r - Third(l, r)
                    /\ r - Third(l, r) <= r
                    /\ l <= l + Third(l, r)
                    /\ l + Third(l, r) <= r
               /\ i < Len(stack) =>
                    /\ l <= stack[i + 1].left
                    /\ stack[i + 1].right <= r
                    /\ \/ stack[i + 1].left = l /\ stack[i + 1].right = r - Third(l, r)
                       \/ stack[i + 1].left = l + Third(l, r) /\ stack[i + 1].right = r

\* C11 witness: on five elements, a call on the last two thirds [1, 4] has
\* itself called on its last two thirds [2, 4], which is comparing.
C11_Witness ==
    /\ Len(input) = 5
    /\ Len(stack) = 3
    /\ stack[2].left = 1
    /\ stack[2].right = 4
    /\ stack[3].left = 2
    /\ stack[3].right = 4
    /\ stack[3].pc = "start"

====
